---- MODULE Spec2Model ----
(***************************************************************************)
(* Agent Swarm (src/agent_swarm.py): a Tech Director ("TD") and Groups     *)
(* coordinate through three JSON files: tasks.json, messages.json and      *)
(* groups.json.  Every command line invocation is a separate process that  *)
(* loads the files it needs, mutates its private copy and writes whole     *)
(* files back.                                                             *)
(*                                                                         *)
(* Identifiers are modelled as sequences of one-character strings so that  *)
(* validate_id is computed on the characters.  The task store is the       *)
(* sequence of task records in dict (insertion) order.  Titles,            *)
(* descriptions, created_at, message timestamps and the per-agent log      *)
(* files are not modelled; a dependency list is modelled as the set of its *)
(* members (the code only tests membership and iterates it for checks).    *)
(***************************************************************************)
EXTENDS Integers, Sequences, FiniteSets, TLC

VARIABLES tasksFile, messagesFile, groupsFile, now, last, procs

vars == <<tasksFile, messagesFile, groupsFile, now, last, procs>>

-----------------------------------------------------------------------------
(* Bounds of the model *)

\* the clock stops at MaxTime: at most MaxTime - 2 invocations change the files
MaxTime == 5
\* tasks in the store
MaxTasks == 3

-----------------------------------------------------------------------------
(* Values *)

PENDING == "pending"
IN_PROGRESS == "in_progress"
COMPLETED == "completed"
BLOCKED == "blocked"

TaskStatus == {PENDING, IN_PROGRESS, COMPLETED, BLOCKED}

\* Python's None for Task.assigned_to (never a sequence of characters)
NoneVal == <<"None">>

\* Python's None for Task.completed_at; the clock starts after it
NoTime == 0

TD == <<"T", "D">>

Letters ==
    {"a","b","c","d","e","f","g","h","i","j","k","l","m",
     "n","o","p","q","r","s","t","u","v","w","x","y","z",
     "A","B","C","D","E","F","G","H","I","J","K","L","M",
     "N","O","P","Q","R","S","T","U","V","W","X","Y","Z"}

Digits == {"0","1","2","3","4","5","6","7","8","9"}

\* the character class [a-zA-Z0-9_-]
SafeChars == Letters \cup Digits \cup {"_", "-"}

\* the identifier pattern of the documentation: one or more safe characters
MatchesPattern(s) ==
    /\ Len(s) >= 1
    /\ \A i \in 1..Len(s) : s[i] \in SafeChars

\* re.match(r'^[a-zA-Z0-9_-]+$', s): in Python "$" matches at the end of the
\* string and also just before a newline that ends the string
ReMatch(s) ==
    \/ MatchesPattern(s)
    \/ /\ Len(s) >= 2
       /\ s[Len(s)] = "\n"
       /\ MatchesPattern(SubSeq(s, 1, Len(s) - 1))

validate_id(s) ==
    IF s = <<>> THEN FALSE
    ELSE ReMatch(s)

-----------------------------------------------------------------------------
(* Records *)

Task(id, deps) ==
    [id |-> id, assigned_to |-> NoneVal, status |-> PENDING,
     dependencies |-> deps, completed_at |-> NoTime]

Message(from, to, kind, tid, dep) ==
    [from_agent |-> from, to_agent |-> to, kind |-> kind, task |-> tid, dep |-> dep]

\* dict helpers over the ordered task store
Keys(tasks) == {tasks[i].id : i \in DOMAIN tasks}

Get(tasks, id) == tasks[CHOOSE i \in DOMAIN tasks : tasks[i].id = id]


\* tasks[id].field = value, in place (dict order is kept)
SetField(tasks, id, new) ==
    [i \in DOMAIN tasks |-> IF tasks[i].id = id THEN new ELSE tasks[i]]

-----------------------------------------------------------------------------
(* The methods, as functions of the caller's private copy of the store.     *)
(* Each returns the diagnostic it prints (out), the tasks it leaves in its  *)
(* copy, whether it saved them, and the messages it appended.               *)

Result(out, saved, tasks, msgs) ==
    [out |-> out, saved |-> saved, tasks |-> tasks, msgs |-> msgs]

\* the return value of a method: True on success and on the handled warning
Ok(out) == out \in {"ok", "assigned_blocked", "already_completed"}

\* TechDirector._check_dependencies / Group._check_dependencies
check_dependencies(task, tasks) ==
    \A dep_id \in task.dependencies :
        /\ dep_id \in Keys(tasks)
        /\ Get(tasks, dep_id).status = COMPLETED

\* create_task without the validation of the dependencies
create_task_unchecked(tasks, task_id, dependencies) ==
    IF ~validate_id(task_id) THEN Result("invalid_id", FALSE, tasks, <<>>)
    ELSE IF task_id \in Keys(tasks) THEN Result("duplicate_task", FALSE, tasks, <<>>)
    ELSE Result("ok", TRUE, Append(tasks, Task(task_id, dependencies)), <<>>)

\* TechDirector.create_task on self.tasks
create_task(tasks, task_id, dependencies) ==
    IF ~validate_id(task_id) THEN Result("invalid_id", FALSE, tasks, <<>>)
    ELSE IF task_id \in Keys(tasks) THEN Result("duplicate_task", FALSE, tasks, <<>>)
    ELSE IF \E dep_id \in dependencies : dep_id \notin Keys(tasks)
         THEN Result("unknown_dependency", FALSE, tasks, <<>>)
    ELSE Result("ok", TRUE, Append(tasks, Task(task_id, dependencies)), <<>>)

\* assign_status that skips the dependency check
assign_status_unchecked(task, tasks) == IN_PROGRESS

\* assign_status that checks the dependencies of a Pending task only
assign_status_pending_only(task, tasks) ==
    IF task.status = PENDING /\ ~check_dependencies(task, tasks)
    THEN BLOCKED ELSE IN_PROGRESS

\* the status assign_task gives the task
assign_status(task, tasks) ==
    IF ~check_dependencies(task, tasks) THEN BLOCKED ELSE IN_PROGRESS

\* assign_task without the assignment of task.assigned_to
assign_task_unassigned(tasks, task_id, group_name) ==
    IF ~validate_id(group_name) THEN Result("invalid_id", FALSE, tasks, <<>>)
    ELSE IF task_id \notin Keys(tasks) THEN Result("unknown_task", FALSE, tasks, <<>>)
    ELSE LET task == Get(tasks, task_id)
             st == assign_status(task, tasks)
             new == SetField(tasks, task_id, [task EXCEPT !.status = st])
         IN IF st = BLOCKED
            THEN Result("assigned_blocked", TRUE, new, <<>>)
            ELSE Result("ok", TRUE, new,
                        <<Message(TD, group_name, "assigned", task_id, NoneVal)>>)

\* TechDirector.assign_task on self.tasks
assign_task(tasks, task_id, group_name) ==
    IF ~validate_id(group_name) THEN Result("invalid_id", FALSE, tasks, <<>>)
    ELSE IF task_id \notin Keys(tasks) THEN Result("unknown_task", FALSE, tasks, <<>>)
    ELSE LET task == [Get(tasks, task_id) EXCEPT !.assigned_to = group_name]
             st == assign_status(task, tasks)
             new == SetField(tasks, task_id, [task EXCEPT !.status = st])
         IN IF st = BLOCKED
            THEN Result("assigned_blocked", TRUE, new, <<>>)
            ELSE Result("ok", TRUE, new,
                        <<Message(TD, group_name, "assigned", task_id, NoneVal)>>)

\* the message an unblock sends: the text names the unblocked task and,
\* when a Group sends it, the completed dependency
unblock_message(from, task, named_dep) ==
    Message(from, task.assigned_to, "unblocked", task.id, named_dep)

\* _unblock_dependent_tasks: one pass over the store in dict order, from
\* position i on; msgs are the messages appended so far.  named_dep is the
\* dependency the message text names (task_id for a Group, none for TD)
RECURSIVE unblock_from(_, _, _, _, _, _)
unblock_from(i, tasks, msgs, task_id, from, named_dep) ==
    IF i > Len(tasks) THEN [tasks |-> tasks, msgs |-> msgs]
    ELSE LET task == tasks[i] IN
         IF /\ task_id \in task.dependencies
            /\ task.status = BLOCKED
            /\ check_dependencies(task, tasks)
         THEN unblock_from(i + 1,
                  [tasks EXCEPT ![i].status = IN_PROGRESS],
                  IF task.assigned_to # NoneVal /\ task.assigned_to # <<>>
                  THEN Append(msgs, unblock_message(from, task, named_dep))
                  ELSE msgs,
                  task_id, from, named_dep)
         ELSE unblock_from(i + 1, tasks, msgs, task_id, from, named_dep)

\* the characters of the inputs in code point order, as Python compares str
CodePoints ==
    <<"\n", " ", "-",
      "0","1","2","3","4","5","6","7","8","9",
      "A","B","C","D","E","F","G","H","I","J","K","L","M",
      "N","O","P","Q","R","S","T","U","V","W","X","Y","Z",
      "_",
      "a","b","c","d","e","f","g","h","i","j","k","l","m",
      "n","o","p","q","r","s","t","u","v","w","x","y","z">>

Ord(c) == CHOOSE i \in DOMAIN CodePoints : CodePoints[i] = c

\* x < y on str
RECURSIVE IdLess(_, _)
IdLess(x, y) ==
    IF x = <<>> THEN y # <<>>
    ELSE IF y = <<>> THEN FALSE
    ELSE IF Head(x) = Head(y) THEN IdLess(Tail(x), Tail(y))
    ELSE Ord(Head(x)) < Ord(Head(y))

\* a cascade that visits the tasks in ascending id order (for tid in
\* sorted(tasks)): its messages come out sorted by task id
unblock_dependent_tasks_sorted(tasks, task_id, from, named_dep) ==
    LET u == unblock_from(1, tasks, <<>>, task_id, from, named_dep)
        sent == {u.msgs[k] : k \in DOMAIN u.msgs}
        rank(m) == Cardinality({n \in sent : IdLess(n.task, m.task)}) + 1
    IN [tasks |-> u.tasks,
        msgs |-> [k \in DOMAIN u.msgs |-> CHOOSE m \in sent : rank(m) = k]]

\* a cascade that also wakes the blocked dependents of the tasks it has just
\* unblocked
unblock_dependent_tasks_transitive(tasks, task_id, from, named_dep) ==
    LET u == unblock_from(1, tasks, <<>>, task_id, from, named_dep)
        woke == {tasks[i].id : i \in {j \in DOMAIN tasks :
                     tasks[j].status = BLOCKED /\ u.tasks[j].status = IN_PROGRESS}}
    IN [tasks |-> [i \in DOMAIN tasks |->
                      IF /\ u.tasks[i].status = BLOCKED
                         /\ u.tasks[i].dependencies \cap woke # {}
                      THEN [u.tasks[i] EXCEPT !.status = IN_PROGRESS]
                      ELSE u.tasks[i]],
        msgs |-> u.msgs]

\* the cascade without its notification messages
unblock_dependent_tasks_silent(tasks, task_id, from, named_dep) ==
    [tasks |-> unblock_from(1, tasks, <<>>, task_id, from, named_dep).tasks,
     msgs |-> <<>>]

unblock_dependent_tasks(tasks, task_id, from, named_dep) ==
    unblock_from(1, tasks, <<>>, task_id, from, named_dep)

\* complete_check without its test for a blocked task
complete_check_noblocked(task) ==
    IF task.status = COMPLETED THEN "already_completed" ELSE "ok"

\* complete_check without its test for a completed task
complete_check_nocompleted(task) ==
    IF task.status = BLOCKED THEN "still_blocked" ELSE "ok"

\* the state validation of complete_task
complete_check(task) ==
    IF task.status = COMPLETED THEN "already_completed"
    ELSE IF task.status = BLOCKED THEN "still_blocked"
    ELSE "ok"

\* the completion itself: status and completed_at
mark_completed(tasks, task_id, t) ==
    SetField(tasks, task_id,
        [Get(tasks, task_id) EXCEPT !.status = COMPLETED, !.completed_at = t])

\* TechDirector.complete_task on self.tasks at time t
td_complete_task(tasks, task_id, t) ==
    IF task_id \notin Keys(tasks) THEN Result("unknown_task", FALSE, tasks, <<>>)
    ELSE LET c == complete_check(Get(tasks, task_id)) IN
         IF c # "ok" THEN Result(c, FALSE, tasks, <<>>)
         ELSE LET u == unblock_dependent_tasks(mark_completed(tasks, task_id, t),
                                               task_id, TD, NoneVal)
              IN Result("ok", TRUE, u.tasks, u.msgs)

\* an ownership test that lets any group act on an assigned task
is_owner_assigned(task, name) == task.assigned_to # NoneVal

\* the ownership test of the Group methods
is_owner(task, name) == task.assigned_to = name

\* Group.complete_task of group name on the tasks it loaded, at time t
group_complete_task(tasks, name, task_id, t) ==
    IF task_id \notin Keys(tasks) THEN Result("unknown_task", FALSE, tasks, <<>>)
    ELSE IF ~is_owner(Get(tasks, task_id), name)
    THEN Result("not_owner", FALSE, tasks, <<>>)
    ELSE LET c == complete_check(Get(tasks, task_id)) IN
         IF c # "ok" THEN Result(c, FALSE, tasks, <<>>)
         ELSE LET u == unblock_dependent_tasks(mark_completed(tasks, task_id, t),
                                               task_id, name, task_id)
              IN Result("ok", TRUE, u.tasks,
                        Append(u.msgs, Message(name, TD, "completed", task_id, NoneVal)))

\* Group.report_progress of group name on the tasks it loaded
report_progress(tasks, name, task_id) ==
    IF task_id \notin Keys(tasks) THEN Result("unknown_task", FALSE, tasks, <<>>)
    ELSE IF ~is_owner(Get(tasks, task_id), name)
    THEN Result("not_owner", FALSE, tasks, <<>>)
    ELSE Result("ok", FALSE, tasks, <<Message(name, TD, "progress", task_id, NoneVal)>>)

\* the groups dict with name registered at time t
register(groups, name, t) == Append(groups, [name |-> name, created_at |-> t])

GroupNames(groups) == {groups[i].name : i \in DOMAIN groups}

-----------------------------------------------------------------------------
(* Inputs of the commands *)

A == <<"a">>
B == <<"b">>
C == <<"c">>

\* an id that ends in a newline, an id with a space, the empty id
NewlineId == <<"a", "\n">>
SpaceId == <<"a", " ">>
EmptyId == <<>>

PlainIds == {A, B, C}

\* the order in which the stores of Init were filled
IdOrder == <<A, B, C>>

G == <<"g">>
H == <<"h">>

GroupInputs == {G, H, <<"g", " ">>}

Procs == {1, 2}

Idle == [pc |-> "idle"]

\* what the last invocation was and what it reported
Last(op, out) == [op |-> op, out |-> out, ok |-> Ok(out)]

\* the stores that at most n create-task commands leave behind when they
\* take their ids in IdOrder, with every choice of dependencies
RECURSIVE CreatedStores(_)
CreatedStores(n) ==
    IF n = 0 THEN {<<>>}
    ELSE LET prev == CreatedStores(n - 1) IN
         prev \cup
         UNION {{create_task(s, id, deps).tasks :
                    id \in (IF Len(s) < Len(IdOrder)
                            THEN {IdOrder[Len(s) + 1]} ELSE {}),
                    deps \in SUBSET PlainIds} : s \in prev}

-----------------------------------------------------------------------------
(* The commands, one invocation at a time, each from load to exit *)

\* the clock (datetime.now()): every invocation that writes reads a later
\* time than the stamps written before it
Tick(wrote) ==
    IF wrote THEN now < MaxTime /\ now' = now + 1
    ELSE now' = now

\* td create-task <id> ... --deps ...
TDCreateTask(task_id, dependencies) ==
    LET r == create_task(tasksFile, task_id, dependencies) IN
    /\ r.saved => Len(tasksFile) < MaxTasks
    /\ tasksFile' = r.tasks
    /\ Tick(r.saved)
    /\ last' = Last("td_create", r.out)
    /\ UNCHANGED <<messagesFile, groupsFile, procs>>

\* td assign-task <id> <group>
TDAssignTask(task_id, group_name) ==
    LET r == assign_task(tasksFile, task_id, group_name) IN
    /\ tasksFile' = r.tasks
    /\ messagesFile' = messagesFile \o r.msgs
    /\ Tick(r.saved)
    /\ last' = Last("td_assign", r.out)
    /\ UNCHANGED <<groupsFile, procs>>

\* td complete-task <id>
TDCompleteTask(task_id) ==
    LET r == td_complete_task(tasksFile, task_id, now) IN
    /\ tasksFile' = r.tasks
    /\ messagesFile' = messagesFile \o r.msgs
    /\ Tick(r.saved)
    /\ last' = Last("td_complete", r.out)
    /\ UNCHANGED <<groupsFile, procs>>

\* Group.__init__: Group(<name>), the first thing every group command does
GroupInit(name) ==
    IF ~validate_id(name)
    THEN /\ last' = Last("group_init", "invalid_id")
         /\ UNCHANGED <<tasksFile, messagesFile, groupsFile, now, procs>>
    ELSE LET fresh == name \notin GroupNames(groupsFile) IN
         /\ groupsFile' = IF fresh THEN register(groupsFile, name, now) ELSE groupsFile
         /\ Tick(fresh)
         /\ last' = Last("group_init", "ok")
         /\ UNCHANGED <<tasksFile, messagesFile, procs>>

\* group <name> report-progress <task-id> <message>, after Group(<name>)
GroupReportProgress(name, task_id) ==
    LET r == report_progress(tasksFile, name, task_id) IN
    /\ name \in GroupNames(groupsFile)
    /\ messagesFile' = messagesFile \o r.msgs
    /\ Tick(r.msgs # <<>>)
    /\ last' = Last("group_report", r.out)
    /\ UNCHANGED <<tasksFile, groupsFile, procs>>

\* group <name> complete-task <task-id>, after Group(<name>)
GroupCompleteTask(name, task_id) ==
    LET r == group_complete_task(tasksFile, name, task_id, now) IN
    /\ name \in GroupNames(groupsFile)
    /\ tasksFile' = r.tasks
    /\ messagesFile' = messagesFile \o r.msgs
    /\ Tick(r.saved)
    /\ last' = Last("group_complete", r.out)
    /\ UNCHANGED <<groupsFile, procs>>

\* main: the exit status of an invocation that ran operation op with outcome
\* out.  main discards what the methods return and ends with `return 0`; only
\* an exception that leaves main (Group.__init__'s ValueError for a name
\* validate_id rejects, an error raised while loading) ends the process with
\* status 1.
exit_status(op, out) ==
    IF (op = "group_init" /\ out = "invalid_id") \/ out = "raised" THEN 1 ELSE 0

-----------------------------------------------------------------------------
(* Spec: the task lifecycle.  It starts from any store that create-task    *)
(* commands leave behind, with groups g and h registered at time 1, and    *)
(* runs the commands that write tasks.json.                                *)

Init ==
    /\ tasksFile \in CreatedStores(MaxTasks)
    /\ messagesFile = <<>>
    /\ groupsFile = register(register(<<>>, G, 1), H, 1)
    /\ now = 2
    /\ last = Last("init", "ok")
    /\ procs = [p \in Procs |-> Idle]

Next ==
    \/ \E id \in PlainIds, deps \in {{}, {A}} : TDCreateTask(id, deps)
    \/ \E id \in PlainIds, g \in GroupInputs : TDAssignTask(id, g)
    \/ \E id \in PlainIds : TDCompleteTask(id)
    \/ \E g \in {G, H}, id \in PlainIds : GroupCompleteTask(g, id)

Spec == Init /\ [][Next]_vars

-----------------------------------------------------------------------------
(* SpecGroup: the group commands.  Group g is registered, group h is not   *)
(* until its first command constructs Group(h); the Director assigns the   *)
(* tasks of the store and the groups report on them and complete them.     *)

InitGroup ==
    /\ tasksFile \in CreatedStores(MaxTasks)
    /\ messagesFile = <<>>
    /\ groupsFile = register(<<>>, G, 1)
    /\ now = 2
    /\ last = Last("init", "ok")
    /\ procs = [p \in Procs |-> Idle]

NextGroup ==
    \/ \E id \in PlainIds, g \in GroupInputs : TDAssignTask(id, g)
    \/ \E g \in GroupInputs : GroupInit(g)
    \/ \E g \in {G, H}, id \in PlainIds : GroupReportProgress(g, id)
    \/ \E g \in {G, H}, id \in PlainIds : GroupCompleteTask(g, id)

SpecGroup == InitGroup /\ [][NextGroup]_vars

-----------------------------------------------------------------------------
(* SpecCreate: create-task commands alone, from the empty store, with every *)
(* kind of id                                                              *)

TaskIdInputs == {A, B, C, NewlineId, SpaceId, EmptyId}

InitEmpty ==
    /\ tasksFile = <<>>
    /\ messagesFile = <<>>
    /\ groupsFile = <<>>
    /\ now = 2
    /\ last = Last("init", "ok")
    /\ procs = [p \in Procs |-> Idle]

NextCreate ==
    \E id \in TaskIdInputs, deps \in SUBSET PlainIds : TDCreateTask(id, deps)

SpecCreate == InitEmpty /\ [][NextCreate]_vars

-----------------------------------------------------------------------------
(* SpecConc: two invocations run at the same time.  A process is one       *)
(* command line invocation; it takes one step per file access.  save_*     *)
(* opens the file with mode 'w', which empties it, and then writes; a load *)
(* of an empty or half written file finds no valid JSON and returns the    *)
(* empty collection.  There is no lock.                                    *)

\* the file accesses a method still has to make
SaveTasks(tasks) == [io |-> "save_tasks", tasks |-> tasks, msg |-> NoneVal]

AppendMessage(m) == [io |-> "append_message", tasks |-> <<>>, msg |-> m]

AppendAll(msgs) == [k \in DOMAIN msgs |-> AppendMessage(msgs[k])]

\* create_task and assign_task: save_tasks, then the message if there is one
td_write_io(r) ==
    IF r.saved THEN <<SaveTasks(r.tasks)>> \o AppendAll(r.msgs) ELSE <<>>

\* TechDirector.complete_task: save_tasks with the task completed, the
\* unblock messages of the cascade, save_tasks again
td_complete_io(tasks, task_id, t) ==
    LET r == td_complete_task(tasks, task_id, t) IN
    IF r.saved
    THEN <<SaveTasks(mark_completed(tasks, task_id, t))>>
         \o AppendAll(r.msgs) \o <<SaveTasks(r.tasks)>>
    ELSE <<>>

\* Group.complete_task: the unblock messages of the cascade, save_tasks,
\* the completion message to TD
group_complete_io(r) ==
    IF r.saved
    THEN AppendAll(SubSeq(r.msgs, 1, Len(r.msgs) - 1))
         \o <<SaveTasks(r.tasks)>>
         \o <<AppendMessage(r.msgs[Len(r.msgs)])>>
    ELSE <<>>

\* the method of command c on the tasks the process loaded
Method(c, tasks, t) ==
    CASE c.cmd = "td_create" -> create_task(tasks, c.id, c.deps)
      [] c.cmd = "td_assign" -> assign_task(tasks, c.id, c.grp)
      [] c.cmd = "td_complete" -> td_complete_task(tasks, c.id, t)
      [] c.cmd = "group_complete" -> group_complete_task(tasks, c.grp, c.id, t)
      [] c.cmd = "group_report" -> report_progress(tasks, c.grp, c.id)

MethodIO(c, tasks, t) ==
    CASE c.cmd = "td_complete" -> td_complete_io(tasks, c.id, t)
      [] c.cmd = "group_complete" -> group_complete_io(Method(c, tasks, t))
      [] c.cmd = "group_report" -> AppendAll(Method(c, tasks, t).msgs)
      [] OTHER -> td_write_io(Method(c, tasks, t))

Command(cmd, id, grp, deps) == [cmd |-> cmd, id |-> id, grp |-> grp, deps |-> deps]

\* the command lines of the concurrent runs
ConcCommands ==
    {Command("td_create", id, NoneVal, deps) : id \in {B, C}, deps \in {{}, {A}}}
    \cup {Command("td_assign", id, G, {}) : id \in {A, B}}
    \cup {Command("td_complete", id, NoneVal, {}) : id \in {A, B}}
    \cup {Command("group_complete", id, G, {}) : id \in {A, B}}
    \cup {Command("group_report", id, G, {}) : id \in {A}}

Running(pc, c, out, todo, mbuf) ==
    [pc |-> pc, c |-> c, out |-> out, todo |-> todo, mbuf |-> mbuf]

\* the process starts: the method loads tasks.json (TechDirector.__init__,
\* or the first line of the Group method) and runs on its private copy up
\* to its first write
Start(p, c) ==
    LET r == Method(c, tasksFile, now)
        io == MethodIO(c, tasksFile, now)
        stamps == c.cmd \in {"td_complete", "group_complete"} /\ r.saved
    IN
    /\ procs[p].pc = "idle"
    /\ c.cmd \in {"group_complete", "group_report"} => c.grp \in GroupNames(groupsFile)
    /\ (c.cmd = "td_create" /\ r.saved) => Len(tasksFile) < MaxTasks
    /\ Tick(stamps)
    /\ procs' = [procs EXCEPT ![p] =
                    Running(IF io = <<>> THEN "done" ELSE "io", c, r.out, io, <<>>)]
    /\ UNCHANGED <<tasksFile, messagesFile, groupsFile, last>>

\* the rest of the process after the file access at the head of todo
Popped(q) ==
    [q EXCEPT !.todo = Tail(q.todo),
              !.pc = IF Len(q.todo) = 1 THEN "done" ELSE "io",
              !.mbuf = <<>>]

\* save_tasks, first half: open(tasks_file, 'w') empties the file
OpenTasks(p) ==
    /\ procs[p].pc = "io"
    /\ Head(procs[p].todo).io = "save_tasks"
    /\ tasksFile' = <<>>
    /\ procs' = [procs EXCEPT ![p].pc = "dump"]
    /\ UNCHANGED <<messagesFile, groupsFile, now, last>>

\* save_tasks, second half: json.dump writes the private copy from offset 0.
\* When another process has written since this one opened the file, the two
\* writes overlap: the file holds this copy, or this copy followed by the
\* tail of a longer one, which is no valid JSON and loads as the empty store
DumpTasks(p) ==
    /\ procs[p].pc = "dump"
    /\ Head(procs[p].todo).io = "save_tasks"
    /\ tasksFile' \in (IF tasksFile = <<>>
                        THEN {Head(procs[p].todo).tasks}
                        ELSE {Head(procs[p].todo).tasks, <<>>})
    /\ procs' = [procs EXCEPT ![p] = Popped(procs[p])]
    /\ UNCHANGED <<messagesFile, groupsFile, now, last>>

\* append_message, load_messages
LoadMessages(p) ==
    /\ procs[p].pc = "io"
    /\ Head(procs[p].todo).io = "append_message"
    /\ procs' = [procs EXCEPT ![p].pc = "loaded", ![p].mbuf = messagesFile]
    /\ UNCHANGED <<tasksFile, messagesFile, groupsFile, now, last>>

\* append_message, save_messages: open(messages_file, 'w')
OpenMessages(p) ==
    /\ procs[p].pc = "loaded"
    /\ messagesFile' = <<>>
    /\ procs' = [procs EXCEPT ![p].pc = "dump"]
    /\ UNCHANGED <<tasksFile, groupsFile, now, last>>

\* append_message, save_messages: json.dump, with the same overlap of writes
DumpMessages(p) ==
    /\ procs[p].pc = "dump"
    /\ Head(procs[p].todo).io = "append_message"
    /\ messagesFile' \in (IF messagesFile = <<>>
                           THEN {Append(procs[p].mbuf, Head(procs[p].todo).msg)}
                           ELSE {Append(procs[p].mbuf, Head(procs[p].todo).msg), <<>>})
    /\ procs' = [procs EXCEPT ![p] = Popped(procs[p])]
    /\ UNCHANGED <<tasksFile, groupsFile, now, last>>

\* the stores the concurrent runs start from
MaxConcTasks == 1

InitConc ==
    /\ tasksFile \in CreatedStores(MaxConcTasks)
    /\ messagesFile = <<>>
    /\ groupsFile = register(register(<<>>, G, 1), H, 1)
    /\ now = 2
    /\ last = Last("init", "ok")
    /\ procs = [p \in Procs |-> Idle]

NextConc ==
    \E p \in Procs :
        \/ \E c \in ConcCommands : Start(p, c)
        \/ OpenTasks(p)
        \/ DumpTasks(p)
        \/ LoadMessages(p)
        \/ OpenMessages(p)
        \/ DumpMessages(p)

SpecConc == InitConc /\ [][NextConc]_vars

-----------------------------------------------------------------------------
(* SpecCascade: the cascade.  It starts from the stores that                *)
(*   td create-task a; td create-task x --deps a; td create-task y --deps d *)
(*   td assign-task x g1; td assign-task y g2                               *)
(* leave behind, x and y being b and c in either order: a is Pending, x and *)
(* y are assigned and Blocked, and no message was sent.                     *)

CascadeStores ==
    {assign_task(
        assign_task(
            create_task(
                create_task(create_task(<<>>, A, {}).tasks, x, {A}).tasks,
                y, d).tasks,
            x, g1).tasks,
        y, g2).tasks :
        x \in {B, C}, y \in {B, C}, d \in SUBSET PlainIds, g1 \in {G}, g2 \in {G, H}}

InitCascade ==
    /\ tasksFile \in {s \in CascadeStores :
                         Len(s) = 3 /\ \A i \in 2..3 : s[i].status = BLOCKED}
    /\ messagesFile = <<>>
    /\ groupsFile = register(register(<<>>, G, 1), H, 1)
    /\ now = 2
    /\ last = Last("init", "ok")
    /\ procs = [p \in Procs |-> Idle]

SpecCascade == InitCascade /\ [][Next]_vars

-----------------------------------------------------------------------------
(* SpecConcCascade: two invocations run at the same time on a store with    *)
(* two assigned Blocked tasks                                              *)

SpecConcCascade == InitCascade /\ [][NextConc]_vars

-----------------------------------------------------------------------------
(* SpecNotify: the commands together with their tmux notification.  Each   *)
(* invocation runs in one environment: tmux is not installed, tmux has no  *)
(* session for the target, send-keys succeeds, or send-keys exits non-zero. *)
(* An exception that leaves a method ends the invocation where it is       *)
(* raised: the file accesses after it do not happen.                       *)

TmuxEnv == {"no_tmux", "no_session", "delivered", "send_failed"}

\* TmuxManager.session_exists: has-session returned 0; FileNotFoundError is
\* caught and gives False
session_exists(env) == env \in {"delivered", "send_failed"}

\* send_message that lets CalledProcessError leave the method
tmux_send_message_uncaught(env) ==
    IF env = "send_failed" THEN "raised" ELSE "sent"

\* TmuxManager.send_message: CalledProcessError is caught and printed
tmux_send_message(env) ==
    IF env = "send_failed" THEN "warned" ELSE "sent"

\* if self.tmux.session_exists(session_name): self.tmux.send_message(...)
notify(env) ==
    IF session_exists(env) THEN tmux_send_message(env) ELSE "skipped"

\* TechDirector.send_message
send_message(tasks, to_agent) ==
    Result("ok", FALSE, tasks, <<Message(TD, to_agent, "text", NoneVal, NoneVal)>>)

\* assign_task: the notification comes after save_tasks and append_message
assign_task_notify(tasks, task_id, group_name, env) ==
    LET r == assign_task(tasks, task_id, group_name) IN
    IF r.out = "ok" /\ notify(env) = "raised"
    THEN Result("raised", TRUE, r.tasks, r.msgs)
    ELSE r

\* TechDirector.complete_task: the first notification comes after the first
\* save_tasks and the first unblock message, before the save_tasks that ends
\* the cascade
td_complete_task_notify(tasks, task_id, t, env) ==
    LET r == td_complete_task(tasks, task_id, t) IN
    IF r.msgs # <<>> /\ notify(env) = "raised"
    THEN Result("raised", TRUE, mark_completed(tasks, task_id, t), <<r.msgs[1]>>)
    ELSE r

\* Group.complete_task: the notifications of the cascade come before
\* save_tasks, the notification of TD comes last
group_complete_task_notify(tasks, name, task_id, t, env) ==
    LET r == group_complete_task(tasks, name, task_id, t) IN
    IF r.out = "ok" /\ notify(env) = "raised"
    THEN IF Len(r.msgs) > 1
         THEN Result("raised", FALSE, tasks, <<r.msgs[1]>>)
         ELSE Result("raised", TRUE, r.tasks, r.msgs)
    ELSE r

\* Group.report_progress and TechDirector.send_message: the notification
\* comes after append_message
after_message_notify(r, env) ==
    IF r.out = "ok" /\ notify(env) = "raised"
    THEN Result("raised", r.saved, r.tasks, r.msgs)
    ELSE r

\* an invocation whose method gave r
Invocation(op, r) ==
    /\ tasksFile' = r.tasks
    /\ messagesFile' = messagesFile \o r.msgs
    /\ Tick(r.saved \/ r.msgs # <<>>)
    /\ last' = Last(op, r.out)
    /\ UNCHANGED <<groupsFile, procs>>

TDAssignTaskNotify(task_id, group_name, env) ==
    Invocation("td_assign", assign_task_notify(tasksFile, task_id, group_name, env))

TDCompleteTaskNotify(task_id, env) ==
    Invocation("td_complete", td_complete_task_notify(tasksFile, task_id, now, env))

TDSendMessageNotify(to_agent, env) ==
    Invocation("td_send", after_message_notify(send_message(tasksFile, to_agent), env))

GroupReportProgressNotify(name, task_id, env) ==
    /\ name \in GroupNames(groupsFile)
    /\ Invocation("group_report",
                  after_message_notify(report_progress(tasksFile, name, task_id), env))

GroupCompleteTaskNotify(name, task_id, env) ==
    /\ name \in GroupNames(groupsFile)
    /\ Invocation("group_complete",
                  group_complete_task_notify(tasksFile, name, task_id, now, env))

NextNotify ==
    \E env \in TmuxEnv :
        \/ \E id \in PlainIds, g \in {G} : TDAssignTaskNotify(id, g, env)
        \/ \E id \in PlainIds : TDCompleteTaskNotify(id, env)
        \/ \E g \in {G} : TDSendMessageNotify(g, env)
        \/ \E g \in {G, H}, id \in PlainIds : GroupReportProgressNotify(g, id, env)
        \/ \E g \in {G, H}, id \in PlainIds : GroupCompleteTaskNotify(g, id, env)

\* the stores of InitCascade in which b and c both wait for a alone, one
\* assigned to g and the other to h: one completion of a unblocks both and
\* attempts two notifications
InitNotify ==
    /\ InitCascade
    /\ \A i \in 2..3 : tasksFile[i].dependencies = {A}
    /\ tasksFile[3].assigned_to = H

SpecNotify == InitNotify /\ [][NextNotify]_vars

-----------------------------------------------------------------------------
(* SpecLoad: commands on a tasks.json that may be corrupted.  The file is  *)
(* a valid store, text that is no JSON, or valid JSON in which one task    *)
(* has a status string that TaskStatus does not know.                      *)

\* text that json.load rejects
GarbageFile == <<[raw |-> "{"]>>

\* store s with the status of task id replaced by an unknown string
BadStatus(s, id) == SetField(s, id, [Get(s, id) EXCEPT !.status = "bogus"])

TasksFileContents ==
    CreatedStores(MaxTasks)
    \cup {GarbageFile}
    \cup UNION {{BadStatus(s, id) : id \in Keys(s)} : s \in CreatedStores(MaxTasks)}

\* StateManager.load_tasks: JSONDecodeError is caught and gives {}; the
\* ValueError of TaskStatus(data['status']) in Task.from_dict is not caught
load_tasks(file) ==
    IF \E i \in DOMAIN file : "raw" \in DOMAIN file[i]
    THEN [out |-> "corrupted", tasks |-> <<>>]
    ELSE IF \E i \in DOMAIN file : file[i].status \notin TaskStatus
    THEN [out |-> "raised", tasks |-> <<>>]
    ELSE [out |-> "ok", tasks |-> file]

\* TechDirector(): self.tasks = self.state.load_tasks(), then the method;
\* an exception that leaves load_tasks ends the invocation
LoadedInvocation(op, l, r) ==
    IF l.out = "raised"
    THEN /\ last' = Last(op, "raised")
         /\ UNCHANGED <<tasksFile, messagesFile, groupsFile, now, procs>>
    ELSE /\ tasksFile' = IF r.saved THEN r.tasks ELSE tasksFile
         /\ messagesFile' = messagesFile \o r.msgs
         /\ Tick(r.saved)
         /\ last' = Last(op, r.out)
         /\ UNCHANGED <<groupsFile, procs>>

\* td create-task <id> ... --deps ...
TDCreateTaskLoaded(task_id, dependencies) ==
    LET l == load_tasks(tasksFile)
        r == create_task(l.tasks, task_id, dependencies)
    IN /\ (l.out # "raised" /\ r.saved) => Len(l.tasks) < MaxTasks
       /\ LoadedInvocation("td_create", l, r)

\* td complete-task <id>
TDCompleteTaskLoaded(task_id) ==
    LET l == load_tasks(tasksFile)
        r == td_complete_task(l.tasks, task_id, now)
    IN LoadedInvocation("td_complete", l, r)

InitLoad ==
    /\ tasksFile \in TasksFileContents
    /\ messagesFile = <<>>
    /\ groupsFile = <<>>
    /\ now = 2
    /\ last = Last("init", "ok")
    /\ procs = [p \in Procs |-> Idle]

NextLoad ==
    \/ \E id \in PlainIds, deps \in {{}, {A}} : TDCreateTaskLoaded(id, deps)
    \/ \E id \in PlainIds : TDCompleteTaskLoaded(id)

SpecLoad == InitLoad /\ [][NextLoad]_vars

-----------------------------------------------------------------------------
(* SpecRegister: the construction of Groups, from an empty groups.json     *)

\* group names: five that validate_id accepts, one of them ending in a
\* newline, then a name with a space and the empty name
GroupNameInputs ==
    {G, H, <<"g", "\n">>, <<"g", "-", "1">>, <<"_">>, <<"g", " ">>, <<>>}

NextRegister == \E name \in GroupNameInputs : GroupInit(name)

SpecRegister == InitEmpty /\ [][NextRegister]_vars

-----------------------------------------------------------------------------
(* SpecFrame: the four Group commands, with the Director assigning tasks   *)

\* group <name> my-tasks, after Group(<name>): loads tasks.json and prints
\* the tasks assigned to name; it writes nothing
GroupMyTasks(name) ==
    LET mine == {i \in DOMAIN tasksFile : tasksFile[i].assigned_to = name} IN
    /\ name \in GroupNames(groupsFile)
    /\ last' = [op |-> "group_my_tasks",
                out |-> IF mine = {} THEN "nothing" ELSE "listed",
                ok |-> TRUE]
    /\ UNCHANGED <<tasksFile, messagesFile, groupsFile, now, procs>>

\* group <name> read-messages, after Group(<name>): loads messages.json and
\* prints the messages addressed to name; it writes nothing
GroupReadMessages(name) ==
    LET mine == {k \in DOMAIN messagesFile : messagesFile[k].to_agent = name} IN
    /\ name \in GroupNames(groupsFile)
    /\ last' = [op |-> "group_read_messages",
                out |-> IF mine = {} THEN "nothing" ELSE "listed",
                ok |-> TRUE]
    /\ UNCHANGED <<tasksFile, messagesFile, groupsFile, now, procs>>

NextFrame ==
    \/ \E id \in PlainIds, g \in {G, H} : TDAssignTask(id, g)
    \/ \E g \in {G, H} : GroupInit(g)
    \/ \E g \in {G, H} : GroupMyTasks(g)
    \/ \E g \in {G, H} : GroupReadMessages(g)
    \/ \E g \in {G, H}, id \in PlainIds : GroupReportProgress(g, id)
    \/ \E g \in {G, H}, id \in PlainIds : GroupCompleteTask(g, id)

SpecFrame == InitGroup /\ [][NextFrame]_vars

-----------------------------------------------------------------------------
(* SpecSteps: one invocation, one file access at a time, where a write may *)
(* fail.  save_tasks and save_messages print the IOError/OSError and raise *)
(* it again; no method catches it, so the invocation ends there.           *)

\* the invocation after an exception left the method
Aborted(q) ==
    [q EXCEPT !.pc = "done", !.out = "raised", !.todo = <<>>, !.mbuf = <<>>]

\* save_tasks raises: open() failed and the file is as it was, or json.dump
\* failed after open() had emptied it
FailSaveTasks(p) ==
    /\ procs[p].pc = "io"
    /\ Head(procs[p].todo).io = "save_tasks"
    /\ tasksFile' \in {tasksFile, <<>>}
    /\ procs' = [procs EXCEPT ![p] = Aborted(procs[p])]
    /\ UNCHANGED <<messagesFile, groupsFile, now, last>>

\* save_messages raises inside append_message
FailSaveMessages(p) ==
    /\ procs[p].pc = "loaded"
    /\ messagesFile' \in {messagesFile, <<>>}
    /\ procs' = [procs EXCEPT ![p] = Aborted(procs[p])]
    /\ UNCHANGED <<tasksFile, groupsFile, now, last>>

\* the one process of SpecSteps
Solo == CHOOSE p \in Procs : \A q \in Procs : p <= q

\* a store with two assigned Blocked tasks, where the task they wait for is
\* unassigned or was assigned to group g
InitSteps ==
    /\ tasksFile \in
          LET blocked == {s \in CascadeStores :
                            Len(s) = 3 /\ \A i \in 2..3 : s[i].status = BLOCKED}
          IN blocked \cup {assign_task(s, A, G).tasks : s \in blocked}
    /\ messagesFile = <<>>
    /\ groupsFile = register(register(<<>>, G, 1), H, 1)
    /\ now = 2
    /\ last = Last("init", "ok")
    /\ procs = [p \in Procs |-> Idle]

NextSteps ==
    \/ \E c \in ConcCommands : Start(Solo, c)
    \/ OpenTasks(Solo)
    \/ DumpTasks(Solo)
    \/ LoadMessages(Solo)
    \/ OpenMessages(Solo)
    \/ DumpMessages(Solo)
    \/ FailSaveTasks(Solo)
    \/ FailSaveMessages(Solo)

SpecSteps == InitSteps /\ [][NextSteps]_vars

-----------------------------------------------------------------------------
(* Properties *)

Status(tasks, id) == Get(tasks, id).status

\* a step of complete-task on task x by the Director or by the group that
\* owns x
CompleteStep(x) ==
    \/ TDCompleteTask(x)
    \/ \E g \in {G, H} :
          /\ x \in Keys(tasksFile)
          /\ is_owner(Get(tasksFile, x), g)
          /\ GroupCompleteTask(g, x)

\* the messages a step appended
Delta == SubSeq(messagesFile', Len(messagesFile) + 1, Len(messagesFile'))

LogExtended ==
    /\ Len(messagesFile') >= Len(messagesFile)
    /\ SubSeq(messagesFile', 1, Len(messagesFile)) = messagesFile

\* C3: complete-task on a task whose status is Blocked fails (still
\* blocked), for the Director and for the owning Group, and leaves tasks,
\* messages and groups as they were.
C3_BlockedCompleteFails ==
    [][\A x \in PlainIds :
          (/\ x \in Keys(tasksFile)
           /\ Status(tasksFile, x) = BLOCKED
           /\ CompleteStep(x))
          => /\ ~last'.ok
             /\ last'.out = "still_blocked"
             /\ UNCHANGED <<tasksFile, messagesFile, groupsFile>>]_vars

C3_Witness ==
    /\ last.op = "group_complete"
    /\ last.out = "still_blocked"
    /\ \E i \in DOMAIN tasksFile : tasksFile[i].status = BLOCKED

\* C4: complete-task on a task that is already Completed, by the Director or
\* by the owning Group, returns success and changes no task (status,
\* completed_at) and no message: no cascade runs.
C4_CompleteIdempotent ==
    [][\A x \in PlainIds :
          (/\ x \in Keys(tasksFile)
           /\ Status(tasksFile, x) = COMPLETED
           /\ CompleteStep(x))
          => /\ last'.ok
             /\ UNCHANGED <<tasksFile, messagesFile, groupsFile>>]_vars

C4_Witness ==
    /\ last.out = "already_completed"
    /\ \E i \in DOMAIN tasksFile :
          tasksFile[i].status = COMPLETED /\ tasksFile[i].completed_at # NoTime

\* C10: complete-task or report-progress by group g on an existing task that
\* is not assigned to g fails (not owner) whatever the task's status, and
\* changes no task and appends no message.
C10_NotOwnerFails ==
    [][\A g \in {G, H}, x \in PlainIds :
          (/\ x \in Keys(tasksFile)
           /\ Get(tasksFile, x).assigned_to # g
           /\ (GroupCompleteTask(g, x) \/ GroupReportProgress(g, x)))
          => /\ ~last'.ok
             /\ last'.out = "not_owner"
             /\ UNCHANGED <<tasksFile, messagesFile>>]_vars

C10_Witness ==
    /\ last.op = "group_complete"
    /\ last.out = "not_owner"
    /\ \E i \in DOMAIN tasksFile :
          tasksFile[i].assigned_to \in {G, H} /\ tasksFile[i].status = IN_PROGRESS

\* the unblock notifications for task id among the messages a step appended
UnblockNotes(id) ==
    {k \in DOMAIN Delta : Delta[k].kind = "unblocked" /\ Delta[k].task = id}

\* C2: when complete-task succeeds on x (Director or owning Group), every
\* Blocked task that lists x and now has all its dependencies Completed is
\* InProgress in the store and exactly one notification, addressed to its
\* assignee, was appended for it; a Blocked dependent with another
\* dependency not Completed stays Blocked and gets no notification.
C2_CascadingUnblock ==
    [][\A x \in PlainIds :
          (CompleteStep(x) /\ last'.ok)
          => /\ LogExtended
             /\ Len(tasksFile') = Len(tasksFile)
             /\ \A i \in DOMAIN tasksFile :
                   (x \in tasksFile[i].dependencies /\ tasksFile[i].status = BLOCKED)
                   => IF \A d \in tasksFile[i].dependencies :
                            d \in Keys(tasksFile') /\ Status(tasksFile', d) = COMPLETED
                      THEN /\ tasksFile'[i].status = IN_PROGRESS
                           /\ Cardinality(UnblockNotes(tasksFile[i].id)) = 1
                           /\ \A k \in UnblockNotes(tasksFile[i].id) :
                                 Delta[k].to_agent = tasksFile[i].assigned_to
                      ELSE /\ tasksFile'[i].status = BLOCKED
                           /\ UnblockNotes(tasksFile[i].id) = {}]_vars

\* a completion unblocked one dependent and left another one blocked
C2_Witness ==
    /\ last.op = "td_complete"
    /\ last.out = "ok"
    /\ messagesFile # <<>>
    /\ messagesFile[Len(messagesFile)].kind = "unblocked"
    /\ \E i, j \in DOMAIN tasksFile :
          /\ tasksFile[i].status = COMPLETED
          /\ tasksFile[i].completed_at = now - 1
          /\ tasksFile[i].id \in tasksFile[j].dependencies
          /\ tasksFile[j].status = BLOCKED

\* C5 (as claimed): once a task's completed_at has a value, no command
\* overwrites it.
C5_CompletedAtSetOnce ==
    [][\A i \in DOMAIN tasksFile :
          tasksFile[i].completed_at # NoTime
          => tasksFile'[i].completed_at = tasksFile[i].completed_at]_vars

\* C6 (as claimed): a task becomes Completed only from InProgress.
C6_CompletedOnlyFromInProgress ==
    [][\A i \in DOMAIN tasksFile :
          (tasksFile'[i].status = COMPLETED /\ tasksFile[i].status # COMPLETED)
          => tasksFile[i].status = IN_PROGRESS]_vars

\* C7: assign-task on an existing task with a valid role succeeds and records
\* the role; the status is InProgress exactly when every dependency exists
\* and is Completed, else Blocked; exactly one message, from TD to the
\* assignee, is appended when InProgress and none when Blocked.
C7_AssignEffect ==
    [][\A x \in PlainIds, g \in GroupInputs :
          (/\ x \in Keys(tasksFile)
           /\ MatchesPattern(g)
           /\ TDAssignTask(x, g))
          => /\ last'.ok
             /\ LogExtended
             /\ Get(tasksFile', x).assigned_to = g
             /\ IF \A d \in Get(tasksFile, x).dependencies :
                      d \in Keys(tasksFile) /\ Status(tasksFile, d) = COMPLETED
                THEN /\ Status(tasksFile', x) = IN_PROGRESS
                     /\ Len(Delta) = 1
                     /\ Delta[1].from_agent = TD
                     /\ Delta[1].to_agent = g
                ELSE /\ Status(tasksFile', x) = BLOCKED
                     /\ Delta = <<>>]_vars

\* an assignment was recorded for a task that stays blocked, after one that
\* went to InProgress
C7_Witness ==
    /\ last.op = "td_assign"
    /\ last.out = "assigned_blocked"
    /\ Len(messagesFile) = 1
    /\ messagesFile[1].kind = "assigned"
    /\ \E i \in DOMAIN tasksFile :
          tasksFile[i].status = BLOCKED /\ tasksFile[i].assigned_to \in {G, H}

\* C8: after assign-task on a task, the same assign-task again, with nothing
\* done in between, gives the task the same status.
C8_AssignIdempotent ==
    [][\A x \in PlainIds, g \in GroupInputs :
          (TDAssignTask(x, g) /\ last'.ok)
          => LET again == assign_task(tasksFile', x, g) IN
             /\ Ok(again.out)
             /\ Status(again.tasks, x) = Status(tasksFile', x)]_vars

\* the same assignment ran twice and the task ended InProgress both times
C8_Witness ==
    /\ last.op = "td_assign"
    /\ last.out = "ok"
    /\ Len(messagesFile) >= 2
    /\ messagesFile[Len(messagesFile)] = messagesFile[Len(messagesFile) - 1]
    /\ messagesFile[Len(messagesFile)].kind = "assigned"

\* C9 (as claimed): create-task fails and changes nothing when the id does
\* not match [A-Za-z0-9_-]+, when the id exists or when a dependency is not
\* in the store; otherwise it appends exactly the new Pending task.
C9_CreateTask ==
    [][\A id \in TaskIdInputs, deps \in SUBSET PlainIds :
          TDCreateTask(id, deps)
          => IF \/ ~MatchesPattern(id)
                \/ id \in Keys(tasksFile)
                \/ \E d \in deps : d \notin Keys(tasksFile)
             THEN /\ ~last'.ok
                  /\ UNCHANGED <<tasksFile, messagesFile, groupsFile>>
             ELSE /\ last'.ok
                  /\ tasksFile' = Append(tasksFile,
                         [id |-> id, assigned_to |-> NoneVal, status |-> PENDING,
                          dependencies |-> deps, completed_at |-> NoTime])
                  /\ UNCHANGED <<messagesFile, groupsFile>>]_vars

\* both processes ran create-task to the end, with success, on distinct ids
BothCreated ==
    /\ \A p \in Procs :
          /\ procs[p].pc = "done"
          /\ procs[p].c.cmd = "td_create"
          /\ procs[p].out = "ok"
    /\ procs[1].c.id # procs[2].c.id

\* C1 (as claimed): when two create-task invocations with distinct valid ids
\* have both finished with success, tasks.json holds both tasks.
C1_NoLostCreate ==
    BothCreated => \A p \in Procs : procs[p].c.id \in Keys(tasksFile)

\* C11: the cascade is single-pass.  In a chain where y depends only on x
\* and z only on y, y and z Blocked, a successful complete-task on x leaves
\* y InProgress and z Blocked; and a successful complete-task on y moves a
\* Blocked z that depends only on y to InProgress.
C11_ChainResolves ==
    [][\A x \in PlainIds, y \in PlainIds, z \in PlainIds :
          /\ (/\ y \in Keys(tasksFile) /\ z \in Keys(tasksFile)
               /\ Get(tasksFile, y).dependencies = {x}
               /\ Get(tasksFile, z).dependencies = {y}
               /\ Status(tasksFile, y) = BLOCKED
               /\ Status(tasksFile, z) = BLOCKED
               /\ CompleteStep(x) /\ last'.ok)
              => /\ Status(tasksFile', y) = IN_PROGRESS
                 /\ Status(tasksFile', z) = BLOCKED
          /\ (/\ z \in Keys(tasksFile)
               /\ Get(tasksFile, z).dependencies = {y}
               /\ Status(tasksFile, z) = BLOCKED
               /\ CompleteStep(y) /\ last'.ok)
              => Status(tasksFile', z) = IN_PROGRESS]_vars

\* a chain resolved over two completions: x, then y, each followed by one
\* unblock message
C11_Witness ==
    /\ last.out = "ok"
    /\ last.op \in {"td_complete", "group_complete"}
    /\ \E i \in DOMAIN tasksFile, j \in DOMAIN tasksFile, k \in DOMAIN tasksFile :
          /\ tasksFile[j].dependencies = {tasksFile[i].id}
          /\ tasksFile[k].dependencies = {tasksFile[j].id}
          /\ tasksFile[i].status = COMPLETED
          /\ tasksFile[j].status = COMPLETED
          /\ tasksFile[i].completed_at # NoTime
          /\ tasksFile[i].completed_at < tasksFile[j].completed_at
          /\ tasksFile[k].status = IN_PROGRESS
          /\ \E m \in DOMAIN messagesFile, n \in DOMAIN messagesFile :
                /\ m < n
                /\ messagesFile[m].kind = "unblocked"
                /\ messagesFile[m].task = tasksFile[j].id
                /\ messagesFile[n].kind = "unblocked"
                /\ messagesFile[n].task = tasksFile[k].id

\* the position of task id in the store (dict order)
Pos(tasks, id) == CHOOSE i \in DOMAIN tasks : tasks[i].id = id

\* the unblock notifications among the messages a step appended
Unblocks == {k \in DOMAIN Delta : Delta[k].kind = "unblocked"}

\* C12 (as claimed): when a completion unblocks several tasks, the unblock
\* messages are appended in ascending order of the unblocked tasks' ids.
C12_CascadeAscendingId ==
    [][\A x \in PlainIds :
          (CompleteStep(x) /\ last'.ok)
          => \A k \in Unblocks, l \in Unblocks :
                k < l => IdLess(Delta[k].task, Delta[l].task)]_vars

\* C12 (amended): when a completion unblocks several tasks, the unblock
\* messages are appended in the order in which the unblocked tasks stand in
\* the task store, which is the order in which they were inserted.
C12_CascadeStoreOrder ==
    [][\A x \in PlainIds :
          (CompleteStep(x) /\ last'.ok)
          => \A k \in Unblocks, l \in Unblocks :
                k < l => Pos(tasksFile, Delta[k].task) < Pos(tasksFile, Delta[l].task)]_vars

\* one completion unblocked c and then b: c was created before b
C12_Witness ==
    /\ last.out = "ok"
    /\ last.op \in {"td_complete", "group_complete"}
    /\ Len(messagesFile) >= 2
    /\ \E k \in DOMAIN messagesFile :
          /\ k + 1 \in DOMAIN messagesFile
          /\ messagesFile[k].kind = "unblocked"
          /\ messagesFile[k + 1].kind = "unblocked"
          /\ messagesFile[k].task = C
          /\ messagesFile[k + 1].task = B
          /\ Pos(tasksFile, C) < Pos(tasksFile, B)
          /\ Get(tasksFile, B).status = IN_PROGRESS
          /\ Get(tasksFile, C).status = IN_PROGRESS
          /\ Get(tasksFile, A).completed_at = now - 1

\* the messages a finished assign-task or report-progress invocation appended
Sent(p) ==
    IF /\ procs[p].pc = "done"
       /\ procs[p].c.cmd \in {"td_assign", "group_report"}
       /\ procs[p].out = "ok"
    THEN 1 ELSE 0

\* no invocation is in flight
Quiet == \A p \in Procs : procs[p].pc \in {"idle", "done"}

\* C13 (as claimed): whatever the interleaving, once the invocations have
\* finished the message log holds every message they appended (the log starts
\* empty, so it holds at least as many messages as were appended).
C13_NoLostMessage ==
    Quiet => Len(messagesFile) >= Sent(1) + Sent(2)

\* process p is inside save_tasks
Saving(p) ==
    /\ procs[p].pc \in {"io", "dump"}
    /\ Head(procs[p].todo).io = "save_tasks"

\* C14 (as claimed): tasks.json, which is what a concurrent load reads, only
\* ever goes from its complete content before a save to the complete
\* snapshot that save writes: it never holds anything else in between.
C14_AtomicSave ==
    [][\/ tasksFile' = tasksFile
       \/ \E p \in Procs :
             Saving(p) /\ tasksFile' = Head(procs[p].todo).tasks]_vars

\* C15 (as claimed): once no invocation is in flight, every Blocked task of
\* tasks.json has a dependency that is not Completed.
C15_BlockedHasOpenDependency ==
    Quiet => \A i \in DOMAIN tasksFile :
                tasksFile[i].status = BLOCKED
                => \E d \in tasksFile[i].dependencies :
                      d \notin Keys(tasksFile) \/ Status(tasksFile, d) # COMPLETED

\* the ids that ids depend on, directly or through at most n tasks
RECURSIVE DepClosure(_, _, _)
DepClosure(tasks, ids, n) ==
    IF n = 0 THEN ids
    ELSE DepClosure(tasks,
             ids \cup UNION {Get(tasks, d).dependencies : d \in ids \cap Keys(tasks)},
             n - 1)

\* C16: in every content of tasks.json, also after interleaved invocations
\* that lost updates, every dependency id is the id of a stored task and no
\* task depends on itself, directly or transitively.
C16_DependenciesFormDag ==
    \A i \in DOMAIN tasksFile :
        /\ tasksFile[i].dependencies \subseteq Keys(tasksFile)
        /\ tasksFile[i].id \notin
              DepClosure(tasksFile, tasksFile[i].dependencies, Len(tasksFile))

\* two concurrent create-task invocations succeeded, one of the two tasks was
\* lost, and the task that stayed has a dependency
C16_Witness ==
    /\ BothCreated
    /\ \E p \in Procs : procs[p].c.id \notin Keys(tasksFile)
    /\ \E i \in DOMAIN tasksFile : tasksFile[i].dependencies # {}

\* the step left what method result r says, on the files and in the result
Committed(r) ==
    /\ last'.out = r.out
    /\ last'.ok = Ok(r.out)
    /\ tasksFile' = r.tasks
    /\ messagesFile' = messagesFile \o r.msgs
    /\ groupsFile' = groupsFile

\* C17: whatever the tmux environment of an invocation (no tmux, no session,
\* delivery succeeded, delivery failed), assign-task, complete-task,
\* send-message and report-progress return the result and leave the tasks,
\* messages and groups that the method gives without any notification.
C17_NotificationHasNoEffect ==
    [][\A env \in TmuxEnv :
          /\ \A id \in PlainIds :
                /\ (last'.op = "td_assign" /\ TDAssignTaskNotify(id, G, env))
                      => Committed(assign_task(tasksFile, id, G))
                /\ (last'.op = "td_complete" /\ TDCompleteTaskNotify(id, env))
                      => Committed(td_complete_task(tasksFile, id, now))
                /\ \A g \in {G, H} :
                      /\ (last'.op = "group_report"
                             /\ GroupReportProgressNotify(g, id, env))
                            => Committed(report_progress(tasksFile, g, id))
                      /\ (last'.op = "group_complete"
                             /\ GroupCompleteTaskNotify(g, id, env))
                            => Committed(group_complete_task(tasksFile, g, id, now))
          /\ (last'.op = "td_send" /\ TDSendMessageNotify(G, env))
                => Committed(send_message(tasksFile, G))]_vars

\* a completion by the Director unblocked two assigned tasks: two
\* notifications were attempted before the store was saved
C17_Witness ==
    /\ last.op = "td_complete"
    /\ last.out = "ok"
    /\ Len(messagesFile) >= 2
    /\ messagesFile[Len(messagesFile)].kind = "unblocked"
    /\ messagesFile[Len(messagesFile) - 1].kind = "unblocked"
    /\ messagesFile[Len(messagesFile)].from_agent = TD
    /\ \A k \in {Len(messagesFile) - 1, Len(messagesFile)} :
          Get(tasksFile, messagesFile[k].task).status = IN_PROGRESS

\* C18 (as claimed): no invocation ends in an exception raised by the load
\* of a corrupted tasks.json: the load gives the empty store and the command
\* goes on.
C18_LoadNeverRaises ==
    last.out # "raised"

\* C19 (as claimed): constructing a Group whose name is already registered
\* leaves groups.json as it is, created_at included; constructing a Group
\* never changes the entry of a registered name; constructing a Group whose
\* name does not match [A-Za-z0-9_-]+ fails and registers nothing.
C19_Registration ==
    [][\A name \in GroupNameInputs :
          GroupInit(name)
          => IF ~MatchesPattern(name)
             THEN ~last'.ok /\ groupsFile' = groupsFile
             ELSE /\ last'.ok
                  /\ name \in GroupNames(groupsFile) => groupsFile' = groupsFile
                  /\ \A i \in DOMAIN groupsFile :
                        i \in DOMAIN groupsFile' /\ groupsFile'[i] = groupsFile[i]]_vars


\* C20 (as claimed): after every command the exit status is 0 exactly when
\* the operation succeeded or ended in a handled warning, and non-zero when
\* it failed validation.
C20_ExitStatus ==
    last.op # "init" => (exit_status(last.op, last.out) = 0 <=> last.ok)


\* every dependency of the task is in the store and Completed
DependenciesCompleted(tasks, task) ==
    \A dep_id \in task.dependencies :
        dep_id \in Keys(tasks) /\ Get(tasks, dep_id).status = COMPLETED

\* every Completed task of tasks.json has all its dependencies Completed
CompletedRespectsDependencies ==
    \A i \in DOMAIN tasksFile :
        tasksFile[i].status = COMPLETED
        => DependenciesCompleted(tasksFile, tasksFile[i])

\* a step that moves a task to InProgress or to Completed leaves all the
\* dependencies of that task Completed
MovesRespectDependencies ==
    \A i \in DOMAIN tasksFile' :
        /\ tasksFile'[i].status \in {IN_PROGRESS, COMPLETED}
        /\ (i \in DOMAIN tasksFile => tasksFile[i].status # tasksFile'[i].status)
        => DependenciesCompleted(tasksFile', tasksFile'[i])

\* C21 (as claimed): in every reachable state every Completed task has all
\* its dependencies Completed, and no operation moves a task to InProgress
\* or to Completed while one of its dependencies is not Completed.
C21_DependencyOrder ==
    [](CompletedRespectsDependencies) /\ [][MovesRespectDependencies]_vars


\* C22: in every reachable state a Pending task has no assignee and every
\* InProgress or Blocked task has one.
C22_AssigneeMatchesStatus ==
    \A i \in DOMAIN tasksFile :
        /\ tasksFile[i].status = PENDING => tasksFile[i].assigned_to = NoneVal
        /\ tasksFile[i].status \in {IN_PROGRESS, BLOCKED}
              => tasksFile[i].assigned_to \notin {NoneVal, <<>>}

\* a completion has just unblocked a task and addressed its assignee, while
\* another task is still Pending
C22_Witness ==
    /\ last.op \in {"td_complete", "group_complete"}
    /\ last.out = "ok"
    /\ messagesFile # <<>>
    /\ \E k \in DOMAIN messagesFile :
          /\ messagesFile[k].kind = "unblocked"
          /\ Get(tasksFile, messagesFile[k].task).status = IN_PROGRESS
          /\ messagesFile[k].to_agent = Get(tasksFile, messagesFile[k].task).assigned_to
    /\ \E i \in DOMAIN tasksFile : tasksFile[i].status = PENDING


\* a command of group g
GroupStep(g) ==
    \/ last'.op = "group_my_tasks" /\ GroupMyTasks(g)
    \/ last'.op = "group_read_messages" /\ GroupReadMessages(g)
    \/ \E id \in PlainIds :
          \/ last'.op = "group_report" /\ GroupReportProgress(g, id)
          \/ last'.op = "group_complete" /\ GroupCompleteTask(g, id)

\* what a step may do to the tasks when group g takes it: no task is
\* created or removed, no id, assignee or dependency set changes, and a
\* task not assigned to g is left as it is or goes from Blocked to
\* InProgress
GroupFrame(g) ==
    /\ DOMAIN tasksFile' = DOMAIN tasksFile
    /\ \A i \in DOMAIN tasksFile :
          /\ tasksFile'[i].id = tasksFile[i].id
          /\ tasksFile'[i].assigned_to = tasksFile[i].assigned_to
          /\ tasksFile'[i].dependencies = tasksFile[i].dependencies
          /\ tasksFile[i].assigned_to # g
                => \/ tasksFile'[i] = tasksFile[i]
                   \/ /\ tasksFile[i].status = BLOCKED
                      /\ tasksFile'[i] = [tasksFile[i] EXCEPT !.status = IN_PROGRESS]

\* C23: no command of a Group g (my-tasks, report-progress, complete-task,
\* read-messages) creates a task or changes an id, an assignee or a
\* dependency set, and the only change it makes to a task not assigned to g
\* is the cascade's Blocked -> InProgress: never Completed, never
\* completed_at.
C23_GroupFrame ==
    [][\A g \in {G, H} : GroupStep(g) => GroupFrame(g)]_vars

\* group g has just completed its task and the cascade moved a task of the
\* other group from Blocked to InProgress
C23_Witness ==
    /\ last.op = "group_complete"
    /\ last.out = "ok"
    /\ messagesFile # <<>>
    /\ LET done == messagesFile[Len(messagesFile)] IN
       /\ done.kind = "completed"
       /\ \E k \in DOMAIN messagesFile :
             /\ messagesFile[k].kind = "unblocked"
             /\ messagesFile[k].from_agent = done.from_agent
             /\ messagesFile[k].to_agent # done.from_agent
             /\ Get(tasksFile, messagesFile[k].task).status = IN_PROGRESS
             /\ Get(tasksFile, messagesFile[k].task).assigned_to # done.from_agent


\* process p, running complete-task, writes an unblock message to
\* messages.json in this step
WritesUnblockMessage(p) ==
    /\ procs[p].pc = "dump"
    /\ procs[p].c.cmd \in {"td_complete", "group_complete"}
    /\ Head(procs[p].todo).io = "append_message"
    /\ Head(procs[p].todo).msg.kind = "unblocked"
    /\ messagesFile' # messagesFile
    /\ messagesFile' # <<>>

\* C24 (as claimed): whenever a complete-task of x, by the Director or by a
\* Group, puts an unblock message in messages.json, tasks.json already
\* records x as Completed.
C24_UnblockAfterPersistedCompletion ==
    [][\A p \in Procs :
          WritesUnblockMessage(p)
          => /\ procs[p].c.id \in Keys(tasksFile')
             /\ Get(tasksFile', procs[p].c.id).status = COMPLETED]_vars

====
